---- MODULE Spec2Model ----
(***************************************************************************)
(* Model of the command-line assistant:                                    *)
(*   calculator/evaluator.py  safe_eval (parse with ast.parse, walk with   *)
(*                            the whitelist evaluator _eval)               *)
(*   utils/math_utils.py      is_math_question, extract_expression         *)
(*   main.py                  timed, handle_math and the interactive loop  *)
(*   services/weather.py      is_weather_query                             *)
(*   services/currency.py     is_currency_query, CurrencyClient.convert    *)
(*                            and its four providers                       *)
(*                                                                         *)
(* A Python str is a sequence of one-character strings.  ast.parse is the  *)
(* CPython 3.10-3.13 parser restricted to the vocabulary of the modelled   *)
(* inputs: decimal digits, '.', the imaginary suffix j, identifiers,       *)
(* quoted strings without escapes, blanks and the operators                *)
(* + - * ** / // ( ) . and '...'.  Exponent and radix-prefixed literals,   *)
(* digit separators, keywords other than True/False/None, commas and line  *)
(* breaks are outside that vocabulary and never occur in an input.         *)
(*                                                                         *)
(* Numbers are exact rationals n/d tagged with their Python type.  A float *)
(* carries ex = TRUE when the rational is the binary64 value itself and    *)
(* ex = FALSE when the binary64 value is the rounding of (a computation    *)
(* around) that rational.  Magnitudes are kept up to MaxMagnitude; an      *)
(* evaluation that needs more, or that needs a decision the rounding       *)
(* leaves open, yields the outcome "beyond" and its input is not drawn.    *)
(***************************************************************************)
EXTENDS Integers, Sequences, FiniteSets, TLC

\* ---------------------------------------------------------------- bounds
MaxLen == 4
MaxTextLen == 5
MaxMagnitude == 10000
MaxTurns == 2

\* ------------------------------------------------------------ characters
Digits == {"0", "1", "2", "3", "4", "5", "6", "7", "8", "9"}

DigitVal(c) ==
  CASE c = "0" -> 0 [] c = "1" -> 1 [] c = "2" -> 2 [] c = "3" -> 3
    [] c = "4" -> 4 [] c = "5" -> 5 [] c = "6" -> 6 [] c = "7" -> 7
    [] c = "8" -> 8 [] c = "9" -> 9

LowerCase ==
  <<"a", "b", "c", "d", "e", "f", "g", "h", "i", "j", "k", "l", "m", "n", "o",
    "p", "q", "r", "s", "t", "u", "v", "w", "x", "y", "z">>

UpperCase ==
  <<"A", "B", "C", "D", "E", "F", "G", "H", "I", "J", "K", "L", "M", "N", "O",
    "P", "Q", "R", "S", "T", "U", "V", "W", "X", "Y", "Z">>

Letters == {LowerCase[i] : i \in 1..26} \cup {UpperCase[i] : i \in 1..26} \cup {"_"}

Blank == {" ", "\t"}

Abs(x) == IF x < 0 THEN -x ELSE x

RECURSIVE GCD(_, _)
GCD(a, b) == IF b = 0 THEN a ELSE GCD(b, a % b)

RECURSIVE IsPow2(_)
IsPow2(d) == IF d = 1 THEN TRUE ELSE IF d % 2 # 0 THEN FALSE ELSE IsPow2(d \div 2)

\* floor(log2(n)) for n >= 1
RECURSIVE Log2(_)
Log2(n) == IF n < 2 THEN 0 ELSE 1 + Log2(n \div 2)

\* ------------------------------------------------------- Python numbers
\* A Python object of the numeric tower (or a non-numeric constant): k is
\* its type, n/d its value in lowest terms, ex whether the binary64 value
\* is exactly n/d, big whether the magnitude left the modelled range.
PyVal(k, n, d, ex) ==
  LET g  == GCD(Abs(n), d)
      n1 == IF g = 0 THEN 0 ELSE n \div g
      d1 == IF g = 0 THEN 1 ELSE d \div g
  IN IF Abs(n1) > MaxMagnitude \/ d1 > MaxMagnitude
       THEN [k |-> k, n |-> 0, d |-> 1, ex |-> FALSE, big |-> TRUE]
       ELSE [k |-> k, n |-> n1, d |-> d1,
             ex |-> IF k = "float" THEN ex /\ IsPow2(d1) ELSE ex,
             big |-> FALSE]

PyOther(k) == [k |-> k, n |-> 0, d |-> 1, ex |-> TRUE, big |-> FALSE]

\* An opaque complex number: n = 0 iff it is 0j.
PyComplex(zero) ==
  [k |-> "complex", n |-> IF zero THEN 0 ELSE 1, d |-> 1, ex |-> FALSE, big |-> FALSE]

\* ----------------------------------------------------------- tokenizer
SatCap == MaxMagnitude * MaxMagnitude

\* first index >= i of s that is not in the set cs (Len(s)+1 when none)
RECURSIVE RunEnd(_, _, _)
RunEnd(s, i, cs) ==
  IF i > Len(s) \/ s[i] \notin cs THEN i ELSE RunEnd(s, i + 1, cs)

\* value of the digits s[i..j-1] read after acc, saturating at SatCap
RECURSIVE DigitsVal(_, _, _, _)
DigitsVal(s, i, j, acc) ==
  IF i >= j THEN acc
  ELSE IF acc >= SatCap THEN SatCap
  ELSE DigitsVal(s, i + 1, j, acc * 10 + DigitVal(s[i]))

RECURSIVE Pow10(_)
Pow10(f) == IF f = 0 THEN 1 ELSE IF f > 8 THEN SatCap ELSE 10 * Pow10(f - 1)

\* index of the first quote at or after i, 0 when there is none
RECURSIVE QuoteEnd(_, _)
QuoteEnd(s, i) ==
  IF i > Len(s) THEN 0 ELSE IF s[i] = "'" THEN i ELSE QuoteEnd(s, i + 1)

\* index of the first ''' at or after i, 0 when there is none
RECURSIVE TripleEnd(_, _)
TripleEnd(s, i) ==
  IF i + 2 > Len(s) THEN 0
  ELSE IF s[i] = "'" /\ s[i + 1] = "'" /\ s[i + 2] = "'" THEN i
  ELSE TripleEnd(s, i + 1)

Tok(t, v, val, id) == [t |-> t, v |-> v, val |-> val, id |-> id]
OpTok(v) == Tok("op", v, PyOther("none"), <<>>)

LexFail == [ok |-> FALSE, toks |-> <<>>]

\* A number literal starting at i: digits [. digits] [j], or . digits [j].
LexNumber(s, i) ==
  LET a      == RunEnd(s, i, Digits)
      hasDot == a <= Len(s) /\ s[a] = "."
      b      == IF hasDot THEN RunEnd(s, a + 1, Digits) ELSE a
      isImag == b <= Len(s) /\ s[b] = "j"
      e      == IF isImag THEN b + 1 ELSE b
      whole  == DigitsVal(s, i, a, 0)
      all    == IF hasDot THEN DigitsVal(s, a + 1, b, whole) ELSE whole
      den    == IF hasDot THEN Pow10(b - (a + 1)) ELSE 1
      sat    == all >= SatCap \/ den >= SatCap
      val    == IF isImag THEN PyComplex(all = 0)
                ELSE IF sat THEN [k |-> IF hasDot THEN "float" ELSE "int",
                                  n |-> 0, d |-> 1, ex |-> FALSE, big |-> TRUE]
                ELSE IF hasDot THEN PyVal("float", all, den, TRUE)
                ELSE PyVal("int", all, 1, TRUE)
      bad    == \/ e <= Len(s) /\ s[e] \in Letters
                \/ ~hasDot /\ ~isImag /\ a - i > 1 /\ s[i] = "0" /\ whole # 0
  IN [ok |-> ~bad, tok |-> Tok("num", "", val, <<>>), next |-> e]

RECURSIVE Lex(_, _, _)
Lex(s, i, acc) ==
  IF i > Len(s) THEN [ok |-> TRUE, toks |-> acc]
  ELSE LET c  == s[i]
           c2 == IF i + 1 <= Len(s) THEN s[i + 1] ELSE ""
           c3 == IF i + 2 <= Len(s) THEN s[i + 2] ELSE ""
       IN CASE c \in Blank -> Lex(s, i + 1, acc)
            [] c \in Digits \/ (c = "." /\ c2 \in Digits) ->
                 LET r == LexNumber(s, i)
                 IN IF r.ok THEN Lex(s, r.next, Append(acc, r.tok)) ELSE LexFail
            [] c = "." /\ c2 \notin Digits ->
                 IF c2 = "." /\ c3 = "."
                   THEN Lex(s, i + 3, Append(acc, OpTok("...")))
                   ELSE Lex(s, i + 1, Append(acc, OpTok(".")))
            [] c = "*" ->
                 IF c2 = "*" THEN Lex(s, i + 2, Append(acc, OpTok("**")))
                             ELSE Lex(s, i + 1, Append(acc, OpTok("*")))
            [] c = "/" ->
                 IF c2 = "/" THEN Lex(s, i + 2, Append(acc, OpTok("//")))
                             ELSE Lex(s, i + 1, Append(acc, OpTok("/")))
            [] c \in {"+", "-", "(", ")"} -> Lex(s, i + 1, Append(acc, OpTok(c)))
            [] c = "'" /\ c2 = "'" /\ c3 = "'" ->
                 LET e == TripleEnd(s, i + 3)
                 IN IF e = 0 THEN LexFail
                    ELSE Lex(s, e + 3, Append(acc, Tok("str", "", PyOther("str"), <<>>)))
            [] c = "'" /\ ~(c2 = "'" /\ c3 = "'") ->
                 LET e == QuoteEnd(s, i + 1)
                 IN IF e = 0 THEN LexFail
                    ELSE Lex(s, e + 1, Append(acc, Tok("str", "", PyOther("str"), <<>>)))
            [] c \in Letters ->
                 LET e == RunEnd(s, i, Letters \cup Digits)
                 IN Lex(s, e, Append(acc, Tok("name", "", PyOther("none"), SubSeq(s, i, e - 1))))
            [] OTHER -> LexFail

\* -------------------------------------------------------------- parser
Constant(val) == [type |-> "Constant", val |-> val]
Name(id) == [type |-> "Name", id |-> id]
BinOp(op, l, r) == [type |-> "BinOp", op |-> op, left |-> l, right |-> r]
UnaryOp(op, x) == [type |-> "UnaryOp", op |-> op, operand |-> x]
Call(f, args) == [type |-> "Call", func |-> f, args |-> args]
Attribute(x, attr) == [type |-> "Attribute", value |-> x, attr |-> attr]
Starred(x) == [type |-> "Starred", value |-> x]
Keyword(x) == [type |-> "keyword", value |-> x]
TupleNode == [type |-> "Tuple"]

PFail == [ok |-> FALSE, node |-> TupleNode, p |-> 0]
POk(node, p) == [ok |-> TRUE, node |-> node, p |-> p]

IsOp(toks, p, v) == p <= Len(toks) /\ toks[p].t = "op" /\ toks[p].v = v
IsTok(toks, p, t) == p <= Len(toks) /\ toks[p].t = t

BinName(v) ==
  CASE v = "+" -> "Add" [] v = "-" -> "Sub" [] v = "*" -> "Mult"
    [] v = "/" -> "Div" [] v = "//" -> "FloorDiv" [] v = "**" -> "Pow"

KeywordConstant(id) ==
  CASE id = <<"T", "r", "u", "e">> -> PyVal("bool", 1, 1, TRUE)
    [] id = <<"F", "a", "l", "s", "e">> -> PyVal("bool", 0, 1, TRUE)
    [] OTHER -> PyOther("NoneType")

IsKeywordConstant(id) ==
  id \in {<<"T", "r", "u", "e">>, <<"F", "a", "l", "s", "e">>, <<"N", "o", "n", "e">>}

\* STRING+ : adjacent string literals are one constant
RECURSIVE PStrings(_, _)
PStrings(toks, p) == IF IsTok(toks, p, "str") THEN PStrings(toks, p + 1) ELSE p

\* The expression grammar, one rule per case.  left is the operand already
\* parsed by the left-recursive rules ("sum_rest", "term_rest", "trailers")
\* and is unused by the others.
RECURSIVE Parse(_, _, _, _)
Parse(rule, toks, left, p) ==
  CASE rule = "sum" ->
         \* sum: sum ('+' | '-') term | term
         LET l == Parse("term", toks, left, p)
         IN IF l.ok THEN Parse("sum_rest", toks, l.node, l.p) ELSE PFail
    [] rule = "sum_rest" ->
         IF IsOp(toks, p, "+") \/ IsOp(toks, p, "-")
           THEN LET r == Parse("term", toks, left, p + 1)
                IN IF r.ok
                     THEN Parse("sum_rest", toks, BinOp(BinName(toks[p].v), left, r.node), r.p)
                     ELSE POk(left, p)
           ELSE POk(left, p)
    [] rule = "term" ->
         \* term: term ('*' | '/' | '//') factor | factor
         LET l == Parse("factor", toks, left, p)
         IN IF l.ok THEN Parse("term_rest", toks, l.node, l.p) ELSE PFail
    [] rule = "term_rest" ->
         IF IsOp(toks, p, "*") \/ IsOp(toks, p, "/") \/ IsOp(toks, p, "//")
           THEN LET r == Parse("factor", toks, left, p + 1)
                IN IF r.ok
                     THEN Parse("term_rest", toks, BinOp(BinName(toks[p].v), left, r.node), r.p)
                     ELSE POk(left, p)
           ELSE POk(left, p)
    [] rule = "factor" ->
         \* factor: ('+' | '-') factor | power
         IF IsOp(toks, p, "+") \/ IsOp(toks, p, "-")
           THEN LET r == Parse("factor", toks, left, p + 1)
                IN IF r.ok
                     THEN POk(UnaryOp(IF toks[p].v = "-" THEN "USub" ELSE "UAdd", r.node), r.p)
                     ELSE PFail
           ELSE Parse("power", toks, left, p)
    [] rule = "power" ->
         \* power: primary '**' factor | primary
         LET l == Parse("primary", toks, left, p)
         IN IF ~l.ok THEN PFail
            ELSE IF IsOp(toks, l.p, "**")
              THEN LET r == Parse("factor", toks, left, l.p + 1)
                   IN IF r.ok THEN POk(BinOp("Pow", l.node, r.node), r.p)
                              ELSE POk(l.node, l.p)
              ELSE POk(l.node, l.p)
    [] rule = "primary" ->
         \* primary: primary '.' NAME | primary '(' [argument] ')' | atom
         LET a == Parse("atom", toks, left, p)
         IN IF a.ok THEN Parse("trailers", toks, a.node, a.p) ELSE PFail
    [] rule = "trailers" ->
         IF IsOp(toks, p, ".") /\ IsTok(toks, p + 1, "name")
              /\ ~IsKeywordConstant(toks[p + 1].id)
           THEN Parse("trailers", toks, Attribute(left, toks[p + 1].id), p + 2)
         ELSE IF IsOp(toks, p, "(")
           THEN IF IsOp(toks, p + 1, ")")
                  THEN Parse("trailers", toks, Call(left, <<>>), p + 2)
                ELSE IF IsOp(toks, p + 1, "*") \/ IsOp(toks, p + 1, "**")
                  THEN LET r == Parse("sum", toks, TupleNode, p + 2)
                       IN IF r.ok /\ IsOp(toks, r.p, ")")
                            THEN Parse("trailers", toks,
                                   Call(left, <<IF toks[p + 1].v = "*" THEN Starred(r.node)
                                                ELSE Keyword(r.node)>>), r.p + 1)
                            ELSE POk(left, p)
                ELSE LET r == Parse("sum", toks, TupleNode, p + 1)
                     IN IF r.ok /\ IsOp(toks, r.p, ")")
                          THEN Parse("trailers", toks, Call(left, <<r.node>>), r.p + 1)
                          ELSE POk(left, p)
         ELSE POk(left, p)
    [] rule = "atom" ->
         \* atom: NAME | 'True' | 'False' | 'None' | STRING+ | NUMBER | group
         \*       | '()' | '...'
         IF p > Len(toks) THEN PFail
         ELSE LET k == toks[p]
              IN CASE k.t = "num" -> POk(Constant(k.val), p + 1)
                   [] k.t = "str" -> POk(Constant(PyOther("str")), PStrings(toks, p))
                   [] k.t = "name" ->
                        IF IsKeywordConstant(k.id)
                          THEN POk(Constant(KeywordConstant(k.id)), p + 1)
                          ELSE POk(Name(k.id), p + 1)
                   [] k.t = "op" /\ k.v = "..." -> POk(Constant(PyOther("ellipsis")), p + 1)
                   [] k.t = "op" /\ k.v = "(" ->
                        IF IsOp(toks, p + 1, ")") THEN POk(TupleNode, p + 2)
                        ELSE LET r == Parse("sum", toks, TupleNode, p + 1)
                             IN IF r.ok /\ IsOp(toks, r.p, ")") THEN POk(r.node, r.p + 1)
                                                                 ELSE PFail
                   [] OTHER -> PFail

\* ast.parse(src, mode="eval") for a non-empty src: the expression tree, or
\* a SyntaxError (IndentationError for a leading blank is one of them).
ParseTokens(lx) ==
  IF ~lx.ok THEN PFail
  ELSE LET r == Parse("sum", lx.toks, TupleNode, 1)
       IN IF r.ok /\ r.p = Len(lx.toks) + 1 THEN r ELSE PFail

AstParse(src) ==
  IF src[1] \in Blank THEN PFail ELSE ParseTokens(Lex(src, 1, <<>>))

\* ------------------------------------------------ outcomes of a call
\* What a call produced: a returned value, a raised exception (exc is the
\* Python exception type, msg its message, cause the type it was converted
\* from), or "beyond" when the computation left the modelled arithmetic.
NoVal == PyOther("none")
Beyond == [res |-> "beyond", val |-> NoVal, exc |-> "", msg |-> "", cause |-> ""]
Raise(exc, msg) == [res |-> "raise", val |-> NoVal, exc |-> exc, msg |-> msg, cause |-> ""]
Ret(v) ==
  IF v.big THEN Beyond
  ELSE [res |-> "value", val |-> v, exc |-> "", msg |-> "", cause |-> ""]

\* --------------------------------------------- operator module (op.*)
IsNum(v) == v.k \in {"bool", "int", "float", "complex"}
IsReal(v) == v.k \in {"bool", "int", "float"}
IsIntegral(v) == v.d = 1

\* result type of + - * on two real operands (bool counts as int)
Wider(a, b) == IF a.k = "float" \/ b.k = "float" THEN "float" ELSE "int"

\* b multiplied e times onto acc, stopping once the magnitude left the range
RECURSIVE PowIter(_, _, _)
PowIter(b, e, acc) ==
  IF e = 0 \/ Abs(acc) > MaxMagnitude \/ acc = 0 THEN acc
  ELSE IF b = 1 THEN acc
  ELSE IF b = -1 THEN (IF e % 2 = 0 THEN acc ELSE -acc)
  ELSE PowIter(b, e - 1, acc * b)

op_add(a, b) ==
  IF a.big \/ b.big \/ a.k = "complex" \/ b.k = "complex" THEN Beyond
  ELSE Ret(PyVal(Wider(a, b), a.n * b.d + b.n * a.d, a.d * b.d, a.ex /\ b.ex))

op_sub(a, b) ==
  IF a.big \/ b.big \/ a.k = "complex" \/ b.k = "complex" THEN Beyond
  ELSE Ret(PyVal(Wider(a, b), a.n * b.d - b.n * a.d, a.d * b.d, a.ex /\ b.ex))

op_mul(a, b) ==
  IF a.big \/ b.big THEN Beyond
  ELSE IF a.k = "complex" \/ b.k = "complex"
    THEN IF a.ex \/ a.k = "complex" THEN
           IF b.ex \/ b.k = "complex" THEN Ret(PyComplex(a.n = 0 \/ b.n = 0))
           ELSE Beyond
         ELSE Beyond
  ELSE Ret(PyVal(Wider(a, b), a.n * b.n, a.d * b.d, a.ex /\ b.ex))

\* true division: always a float (or complex); x / 0 raises ZeroDivisionError
op_truediv(a, b) ==
  IF a.big \/ b.big THEN Beyond
  ELSE IF b.n = 0
    THEN IF b.ex \/ b.k = "complex" THEN Raise("ZeroDivisionError", "division by zero")
         ELSE Beyond
  ELSE IF a.k = "complex" \/ b.k = "complex"
    THEN IF a.ex \/ a.k = "complex" THEN Ret(PyComplex(a.n = 0)) ELSE Beyond
  ELSE IF b.n > 0 THEN Ret(PyVal("float", a.n * b.d, a.d * b.n, a.ex /\ b.ex))
  ELSE Ret(PyVal("float", -(a.n * b.d), a.d * (-b.n), a.ex /\ b.ex))

\* 2 ** DblMaxExp is the first power of two binary64 cannot hold
DblMaxExp == 1024

\* (n/d) ** e for an integer e >= 0, as type k
PowNat(k, n, d, e, ex) ==
  LET pn == PowIter(n, e, 1)
      pd == PowIter(d, e, 1)
  IN IF Abs(pn) > MaxMagnitude \/ pd > MaxMagnitude
       THEN IF k = "float" /\ Abs(n) > d /\ Log2(Abs(n) \div d) * e >= DblMaxExp
              THEN Raise("OverflowError", "(34, 'Numerical result out of range')")
              ELSE Beyond
       ELSE Ret(PyVal(k, pn, pd, ex))

op_pow(a, b) ==
  IF a.big \/ b.big \/ a.k = "complex" \/ b.k = "complex" THEN Beyond
  ELSE IF ~b.ex /\ (IsIntegral(b) \/ ~a.ex) THEN Beyond
  ELSE IF ~IsIntegral(b) THEN
    \* a fractional exponent
    IF a.n < 0 THEN Ret(PyComplex(FALSE))
    ELSE IF a.n = 0 THEN
      IF ~a.ex THEN Beyond
      ELSE IF b.n > 0 THEN Ret(PyVal("float", 0, 1, TRUE))
      ELSE Raise("ZeroDivisionError", "0.0 cannot be raised to a negative power")
    ELSE IF a.n = 1 /\ a.d = 1 /\ a.ex THEN Ret(PyVal("float", 1, 1, TRUE))
    ELSE Beyond
  ELSE IF b.n >= 0 THEN PowNat(Wider(a, b), a.n, a.d, b.n, a.ex)
  ELSE
    \* a negative integral exponent: the result is a float
    IF a.n = 0 THEN
      IF a.ex THEN Raise("ZeroDivisionError", "0.0 cannot be raised to a negative power")
      ELSE Beyond
    ELSE IF a.n > 0 THEN PowNat("float", a.d, a.n, -b.n, a.ex)
    ELSE PowNat("float", -a.d, -a.n, -b.n, a.ex)

op_neg(a) ==
  IF a.big THEN Beyond
  ELSE IF a.k = "complex" THEN Ret(a)
  ELSE Ret(PyVal(IF a.k = "float" THEN "float" ELSE "int", -a.n, a.d, a.ex))

op_pos(a) ==
  IF a.big THEN Beyond
  ELSE IF a.k = "complex" THEN Ret(a)
  ELSE Ret(PyVal(IF a.k = "float" THEN "float" ELSE "int", a.n, a.d, a.ex))

\* --------------------------------------------------- calculator/evaluator
MsgEmpty == "Empty or invalid expression."
MsgUnsupported == "Unsupported operation or structure."
MsgDivZero == "Division by zero."
MsgInvalid == "Invalid expression: "

\* the operator node types that are keys of _ALLOWED
ALLOWED == {"Add", "Sub", "Mult", "Div", "Pow", "USub", "UAdd"}

ApplyBin(op, a, b) ==
  CASE op = "Add" -> op_add(a, b)
    [] op = "Sub" -> op_sub(a, b)
    [] op = "Mult" -> op_mul(a, b)
    [] op = "Div" -> op_truediv(a, b)
    [] op = "Pow" -> op_pow(a, b)

ApplyUn(op, a) ==
  CASE op = "USub" -> op_neg(a)
    [] op = "UAdd" -> op_pos(a)

\* isinstance(node, ast.Num): a Constant holding an int, float or complex
\* that is not a bool
IsAstNum(node) ==
  node.type = "Constant" /\ node.val.k \in {"int", "float", "complex"}

\* isinstance(node, ast.Constant) and isinstance(node.value, (int, float)):
\* bool is a subclass of int
IsIntFloatConstant(node) ==
  node.type = "Constant" /\ node.val.k \in {"int", "float", "bool"}

\* the recursive whitelist walk; operands are evaluated left to right and
\* the first exception propagates
RECURSIVE _eval(_)
_eval(node) ==
  IF IsAstNum(node) THEN Ret(node.val)
  ELSE IF IsIntFloatConstant(node) THEN Ret(node.val)
  ELSE IF node.type = "BinOp" /\ node.op \in ALLOWED THEN
    LET l == _eval(node.left)
    IN IF l.res # "value" THEN l
       ELSE LET r == _eval(node.right)
            IN IF r.res # "value" THEN r ELSE ApplyBin(node.op, l.val, r.val)
  ELSE IF node.type = "UnaryOp" /\ node.op \in ALLOWED THEN
    LET x == _eval(node.operand)
    IN IF x.res # "value" THEN x ELSE ApplyUn(node.op, x.val)
  ELSE Raise("EvalError", MsgUnsupported)

\* expr.replace("^", "**")
RECURSIVE Replace(_)
Replace(s) ==
  IF s = <<>> THEN <<>>
  ELSE (IF Head(s) = "^" THEN <<"*", "*">> ELSE <<Head(s)>>) \o Replace(Tail(s))

\* Python objects handed to safe_eval: a str, None or an int
PyStr(s) == [ty |-> "str", s |-> s, v |-> 0]
PyNone == [ty |-> "NoneType", s |-> <<>>, v |-> 0]
PyInt(v) == [ty |-> "int", s |-> <<>>, v |-> v]

Truthy(o) ==
  CASE o.ty = "str" -> o.s # <<>>
    [] o.ty = "NoneType" -> FALSE
    [] o.ty = "int" -> o.v # 0

\* the body of the try block: ast.parse, then the walk
EvalParsed(parsed) ==
  IF ~parsed.ok THEN Raise("SyntaxError", "invalid syntax") ELSE _eval(parsed.node)

TryBody(src) == EvalParsed(AstParse(src))

\* variants of the except clauses with one clause lost or misplaced
ExceptClauses_NoCatchAll(o) ==
  IF o.res # "raise" THEN o
  ELSE IF o.exc = "EvalError" THEN o
  ELSE IF o.exc = "ZeroDivisionError"
    THEN [Raise("EvalError", MsgDivZero) EXCEPT !.cause = o.exc]
  ELSE o

ExceptClauses_NoZeroDiv(o) ==
  IF o.res # "raise" THEN o
  ELSE IF o.exc = "EvalError" THEN o
  ELSE [Raise("EvalError", MsgInvalid) EXCEPT !.cause = o.exc]

ExceptClauses_CatchAllFirst(o) ==
  IF o.res # "raise" THEN o
  ELSE [Raise("EvalError", MsgInvalid) EXCEPT !.cause = o.exc]

\* the except clauses, in order: EvalError re-raised, ZeroDivisionError
\* relabelled, any other Exception wrapped
ExceptClauses(o) ==
  IF o.res # "raise" THEN o
  ELSE IF o.exc = "EvalError" THEN o
  ELSE IF o.exc = "ZeroDivisionError"
    THEN [Raise("EvalError", MsgDivZero) EXCEPT !.cause = o.exc]
  ELSE [Raise("EvalError", MsgInvalid) EXCEPT !.cause = o.exc]

safe_eval(expr) ==
  IF ~Truthy(expr) \/ expr.ty # "str" THEN Raise("EvalError", MsgEmpty)
  ELSE ExceptClauses(TryBody(Replace(expr.s)))

\* ------------------------------------------------------ utils/math_utils
\* Character classes of the regular expressions and str methods.  "U+0663"
\* (ARABIC-INDIC DIGIT THREE) stands for the decimal digits outside ASCII,
\* "U+00B2" (SUPERSCRIPT TWO) for the characters str.isdigit accepts and
\* \d does not.
Whitespace == {" ", "\t"}
OpChars == {"+", "-", "*", "/", "^"}
RegexDigit == Digits \cup {"U+0663"}
StrIsDigit == Digits \cup {"U+0663", "U+00B2"}

\* _MATH_CHARS = [0-9\+\-\*\/\^\(\)\.\s]
MATH_CHARS == Digits \cup OpChars \cup {"(", ")", "."} \cup Whitespace

\* the class of extract_expression's pattern [0-9\.\s\+\-\*\/\^\(\)]
ExprChars == Digits \cup {"."} \cup Whitespace \cup OpChars \cup {"(", ")"}

\* the search without the optional blanks around the operator
LooseSearch_NoBlanks(t) ==
  \E i \in 1..Len(t) :
    /\ t[i] \in RegexDigit
    /\ LET a == RunEnd(t, i, RegexDigit)
       IN a + 1 <= Len(t) /\ t[a] \in OpChars /\ t[a + 1] \in RegexDigit

\* re.search(r"\d+\s*[\+\-\*\/\^]\s*\d+", text): a match starts at some
\* digit; \s* is greedy and cannot give back a blank to the next item
LooseSearch(t) ==
  \E i \in 1..Len(t) :
    /\ t[i] \in RegexDigit
    /\ LET a == RunEnd(t, i, RegexDigit)
           b == RunEnd(t, a, Whitespace)
       IN /\ b <= Len(t)
          /\ t[b] \in OpChars
          /\ LET c == RunEnd(t, b + 1, Whitespace)
             IN c <= Len(t) /\ t[c] \in RegexDigit

is_math_question(text) ==
  IF ~Truthy(text) THEN FALSE
  ELSE LET t == text.s
           only_mathish == \A i \in 1..Len(t) : t[i] \in MATH_CHARS
           has_digit == \E i \in 1..Len(t) : t[i] \in StrIsDigit
           has_op == \E o \in OpChars : \E i \in 1..Len(t) : t[i] = o
       IN (only_mathish /\ has_digit /\ has_op) \/ LooseSearch(t)

\* re.findall(r"[...]+", text): the maximal runs, left to right
RECURSIVE FindAll(_, _, _)
FindAll(t, i, acc) ==
  IF i > Len(t) THEN acc
  ELSE IF t[i] \in ExprChars
    THEN LET e == RunEnd(t, i, ExprChars)
         IN FindAll(t, e, Append(acc, SubSeq(t, i, e - 1)))
    ELSE FindAll(t, i + 1, acc)

\* the last, instead of the first, element of greatest length
RECURSIVE MaxByLen_Last(_, _, _)
MaxByLen_Last(ms, i, best) ==
  IF i > Len(ms) THEN best
  ELSE IF Len(ms[i]) >= Len(best) THEN MaxByLen_Last(ms, i + 1, ms[i])
  ELSE MaxByLen_Last(ms, i + 1, best)

\* max(matches, key=len): the first element of greatest length
RECURSIVE MaxByLen(_, _, _)
MaxByLen(ms, i, best) ==
  IF i > Len(ms) THEN best
  ELSE IF Len(ms[i]) > Len(best) THEN MaxByLen(ms, i + 1, ms[i])
  ELSE MaxByLen(ms, i + 1, best)

\* str.strip()
RECURSIVE LStrip(_)
LStrip(t) == IF t # <<>> /\ Head(t) \in Whitespace THEN LStrip(Tail(t)) ELSE t

RECURSIVE RStrip(_)
RStrip(t) ==
  IF t # <<>> /\ t[Len(t)] \in Whitespace THEN RStrip(SubSeq(t, 1, Len(t) - 1)) ELSE t

Strip(t) == RStrip(LStrip(t))

\* re.sub(r"\s+", "", expr)
SubWhitespace(t) == SelectSeq(t, LAMBDA c : c \notin Whitespace)

extract_expression(text) ==
  IF ~Truthy(text) THEN PyNone
  ELSE LET matches == FindAll(text.s, 1, <<>>)
       IN IF matches = <<>> THEN PyNone
          ELSE LET expr == SubWhitespace(Strip(MaxByLen(matches, 2, matches[1])))
               IN IF expr = <<>> THEN PyNone ELSE PyStr(expr)

\* ------------------------------------------------------ main.handle_math
MsgNoExpr == "Could not extract a valid math expression."

\* the value f"{expr} = {result}" formats: expr and the presented number
Answer(res, expr, val, exc, msg) ==
  [res |-> res, expr |-> expr, val |-> val, exc |-> exc, msg |-> msg]

\* float.is_integer(): open when a rounded value sits next to an integer
IsInteger(v) == v.d = 1

\* int(result)
ToInt(v) == PyVal("int", v.n, v.d, TRUE)

\* raise EvalError("Could not extract a valid math expression.")
NoExpression == Answer("raise", <<>>, NoVal, "EvalError", MsgNoExpr)

\* the rest of handle_math without the conversion of an integral float
PresentResult_NoConversion(expr, r) ==
  IF r.res = "raise" THEN Answer("raise", expr.s, NoVal, r.exc, r.msg)
  ELSE IF r.res = "beyond" THEN Answer("beyond", expr.s, NoVal, "", "")
  ELSE Answer("value", expr.s, r.val, "", "")

\* the rest of handle_math once safe_eval(expr) ended as r: an exception
\* propagates, an integral float becomes an int, and the f-string is built
PresentResult(expr, r) ==
  IF r.res = "raise" THEN Answer("raise", expr.s, NoVal, r.exc, r.msg)
  ELSE IF r.res = "beyond" THEN Answer("beyond", expr.s, NoVal, "", "")
  ELSE IF r.val.k = "float" /\ IsInteger(r.val)
    THEN IF r.val.ex THEN Answer("value", expr.s, ToInt(r.val), "", "")
         ELSE Answer("beyond", expr.s, NoVal, "", "")
  ELSE Answer("value", expr.s, r.val, "", "")

\* handle_math from the extracted expression on
EvalExtracted(expr) ==
  IF ~Truthy(expr) THEN NoExpression ELSE PresentResult(expr, safe_eval(expr))

handle_math(question) == EvalExtracted(extract_expression(question))

\* ------------------------------------------- services: the classifiers
\* str.lower() on the ASCII letters
LowerChar(c) ==
  IF \E i \in 1..26 : UpperCase[i] = c
    THEN LowerCase[CHOOSE i \in 1..26 : UpperCase[i] = c]
    ELSE c

Lower(t) == [i \in 1..Len(t) |-> LowerChar(t[i])]

\* w in t
Contains(t, w) ==
  \E i \in 1..(Len(t) - Len(w) + 1) : SubSeq(t, i, i + Len(w) - 1) = w

\* "U+00F3" is o with acute, "U+00E9" e with acute
WeatherKeywords ==
  {<<"w", "e", "a", "t", "h", "e", "r">>,
   <<"f", "o", "r", "e", "c", "a", "s", "t">>,
   <<"t", "e", "m", "p", "e", "r", "a", "t", "u", "r", "e">>,
   <<"t", "e", "m", "p", "o">>,
   <<"c", "l", "i", "m", "a">>,
   <<"p", "r", "o", "n", "U+00F3", "s", "t", "i", "c", "o">>,
   <<"p", "r", "o", "n", "o", "s", "t", "i", "c", "o">>}

\* WeatherClient.is_weather_query
is_weather_query(text) ==
  IF ~Truthy(text) THEN FALSE
  ELSE \E k \in WeatherKeywords : Contains(Lower(text.s), k)

\* A pattern is a sequence of items: "alt" one of the words alts, "ws" \s+,
\* "d" \d+, "az3" [a-z]{3}.
Alt(ws) == [k |-> "alt", alts |-> ws]
Ws == [k |-> "ws", alts |-> {}]
Dg == [k |-> "d", alts |-> {}]
Az3 == [k |-> "az3", alts |-> {}]

LowerLetters == {LowerCase[i] : i \in 1..26}

\* the items pat[k..] match t from position i on
RECURSIVE MatchFrom(_, _, _, _)
MatchFrom(t, i, pat, k) ==
  IF k > Len(pat) THEN TRUE
  ELSE LET it == pat[k]
       IN CASE it.k = "alt" ->
                 \E w \in it.alts :
                   /\ i + Len(w) - 1 <= Len(t)
                   /\ SubSeq(t, i, i + Len(w) - 1) = w
                   /\ MatchFrom(t, i + Len(w), pat, k + 1)
            [] it.k = "ws" ->
                 \E e \in (i + 1)..RunEnd(t, i, Whitespace) : MatchFrom(t, e, pat, k + 1)
            [] it.k = "d" ->
                 \E e \in (i + 1)..RunEnd(t, i, RegexDigit) : MatchFrom(t, e, pat, k + 1)
            [] it.k = "az3" ->
                 /\ i + 2 <= Len(t)
                 /\ \A j \in i..(i + 2) : t[j] \in LowerLetters
                 /\ MatchFrom(t, i + 3, pat, k + 1)

\* re.search(pattern, t)
Search(t, pat) == \E i \in 1..(Len(t) + 1) : MatchFrom(t, i, pat, 1)

CurrencyPatterns ==
  {<<Alt({<<"c", "o", "n", "v", "e", "r", "t">>}), Ws, Dg>>,
   <<Dg, Ws, Az3, Ws, Alt({<<"t", "o">>, <<"i", "n">>}), Ws, Az3>>,
   <<Alt({<<"h", "o", "w">>}), Ws, Alt({<<"m", "u", "c", "h">>}), Ws, Alt({<<"i", "s">>}), Ws, Dg>>,
   <<Alt({<<"q", "u", "a", "n", "t", "o">>}), Ws, Alt({<<"U+00E9">>, <<"v", "a", "l", "e">>}), Ws, Dg>>,
   <<Alt({<<"c", "o", "n", "v", "e", "r", "t", "e", "r">>}), Ws, Dg>>}

\* CurrencyClient.is_currency_query
is_currency_query(text) ==
  \E pat \in CurrencyPatterns : Search(Lower(text.s), pat)

\* ------------------------------------ services: CurrencyClient.convert
\* str.upper() on ASCII letters
UpperChar(c) ==
  IF \E i \in 1..26 : LowerCase[i] = c
    THEN UpperCase[CHOOSE i \in 1..26 : LowerCase[i] = c]
    ELSE c

Upper(t) == [i \in 1..Len(t) |-> UpperChar(t[i])]

\* a str built by an f-string: its fixed text and the values put into it
FStr(template, a, b) == [ty |-> "str", text |-> template, a |-> a, b |-> b]

\* None, as last_error holds it before any provider failed
NoError == [ty |-> "NoneType", text |-> "", a |-> <<>>, b |-> <<>>]

\* how a call of convert or of one provider ends: the string returned (who
\* built it, the pair, the rate as a fraction, the [OFFLINE] tag) or the
\* exception raised with its str(); last is the last_error an f-string
\* put into the message
Returned(by, amount, f, t, rate, offline) ==
  [res |-> "return", by |-> by, amount |-> amount, from |-> f, to |-> t,
   rate |-> rate, offline |-> offline, exc |-> "", msg |-> NoError,
   last |-> NoError]

Raised(exc, msg) ==
  [res |-> "raise", by |-> "", amount |-> 0, from |-> <<>>, to |-> <<>>,
   rate |-> <<0, 1>>, offline |-> FALSE, exc |-> exc, msg |-> msg,
   last |-> NoError]

NotReturned ==
  [res |-> "pending", by |-> "", amount |-> 0, from |-> <<>>, to |-> <<>>,
   rate |-> <<0, 1>>, offline |-> FALSE, exc |-> "", msg |-> NoError,
   last |-> NoError]

\* rates a provider on the network may report
OnlineRates == {<<1, 2>>, <<5, 1>>}

\* what requests.get, raise_for_status and resp.json() raise, and a
\* KeyboardInterrupt while the request waits
RequestFailures ==
  {Raised("RequestException", FStr("request failed", <<>>, <<>>)),
   Raised("JSONDecodeError", FStr("Expecting value", <<>>, <<>>)),
   Raised("KeyboardInterrupt", FStr("", <<>>, <<>>))}

_try_exchangerate_api(amount, from_cur, to_cur) ==
  {Returned("_try_exchangerate_api", amount, from_cur, to_cur, r, FALSE) : r \in OnlineRates}
    \cup RequestFailures
    \cup {Raised("CurrencyError", FStr("Currency {to_cur} not supported", to_cur, <<>>))}

_try_fixer_free(amount, from_cur, to_cur) ==
  {Returned("_try_fixer_free", amount, from_cur, to_cur, r, FALSE) : r \in OnlineRates}
    \cup RequestFailures
    \cup {Raised("CurrencyError", FStr("Fixer API limit reached", <<>>, <<>>)),
          Raised("KeyError", FStr("'rates'", <<>>, <<>>))}
    \cup (IF from_cur # <<"E", "U", "R">>
            THEN {Raised("CurrencyError", FStr("Currency not supported by Fixer free tier", <<>>, <<>>)),
                  Raised("ZeroDivisionError", FStr("division by zero", <<>>, <<>>))}
            ELSE {})

_try_currencyapi_free(amount, from_cur, to_cur) ==
  {Returned("_try_currencyapi_free", amount, from_cur, to_cur, r, FALSE) : r \in OnlineRates}
    \cup RequestFailures
    \cup {Raised("CurrencyError", FStr("CurrencyAPI free tier limit reached", <<>>, <<>>))}

\* usd_rates, in hundredths
usd_rates ==
  [c \in {<<"U", "S", "D">>, <<"E", "U", "R">>, <<"G", "B", "P">>, <<"J", "P", "Y">>,
          <<"B", "R", "L">>, <<"C", "A", "D">>, <<"A", "U", "D">>, <<"C", "H", "F">>,
          <<"C", "N", "Y">>, <<"I", "N", "R">>} |->
     CASE c = <<"U", "S", "D">> -> 100
       [] c = <<"E", "U", "R">> -> 85
       [] c = <<"G", "B", "P">> -> 73
       [] c = <<"J", "P", "Y">> -> 11000
       [] c = <<"B", "R", "L">> -> 500
       [] c = <<"C", "A", "D">> -> 125
       [] c = <<"A", "U", "D">> -> 135
       [] c = <<"C", "H", "F">> -> 92
       [] c = <<"C", "N", "Y">> -> 640
       [] c = <<"I", "N", "R">> -> 7400]

\* rate = (1 / usd_rates[from_cur]) * usd_rates[to_cur]
_try_hardcoded_rates(amount, from_cur, to_cur) ==
  IF from_cur \notin DOMAIN usd_rates \/ to_cur \notin DOMAIN usd_rates
    THEN {Raised("CurrencyError",
                 FStr("Currency pair {from_cur}/{to_cur} not supported in fallback rates",
                      from_cur, to_cur))}
    ELSE {Returned("_try_hardcoded_rates", amount, from_cur, to_cur,
                   <<usd_rates[to_cur], usd_rates[from_cur]>>, TRUE)}

\* the list with the offline table tried first
apis_to_try_OfflineFirst ==
  <<"_try_hardcoded_rates", "_try_exchangerate_api", "_try_fixer_free",
    "_try_currencyapi_free">>

apis_to_try ==
  <<"_try_exchangerate_api", "_try_fixer_free", "_try_currencyapi_free",
    "_try_hardcoded_rates">>

\* api_func(amount, from_currency, to_currency)
CallApi(api_func, amount, from_cur, to_cur) ==
  CASE api_func = "_try_exchangerate_api" -> _try_exchangerate_api(amount, from_cur, to_cur)
    [] api_func = "_try_fixer_free" -> _try_fixer_free(amount, from_cur, to_cur)
    [] api_func = "_try_currencyapi_free" -> _try_currencyapi_free(amount, from_cur, to_cur)
    [] api_func = "_try_hardcoded_rates" -> _try_hardcoded_rates(amount, from_cur, to_cur)

\* the exceptions "except Exception" catches; KeyboardInterrupt is not one
CaughtInConvert ==
  {"CurrencyError", "RequestException", "JSONDecodeError", "KeyError", "ZeroDivisionError"}

\* f"{amount} {from_currency} = {amount} {to_currency} (Same currency)"
SameCurrency(amount, from_cur, to_cur) ==
  Returned("convert", amount, from_cur, to_cur, <<1, 1>>, FALSE)

\* CurrencyError(f"All currency conversion methods failed. Last error: {last_error}")
AllFailedError(e) ==
  [Raised("CurrencyError",
          FStr("All currency conversion methods failed. Last error: {last_error}", <<>>, <<>>))
   EXCEPT !.last = e]

\* -------------------------------------------------------------- main.py
\* the Exception subclasses a handler can raise; KeyboardInterrupt is a
\* BaseException only
ExceptionTypes ==
  {"EvalError", "WeatherError", "CurrencyError", "Exception", "SyntaxError",
   "ZeroDivisionError", "OverflowError"}

\* timed without its try/except
timed_NoExcept(o) ==
  [ok |-> TRUE, out |-> o, uncaught |-> o.res = "raise"]

\* timed(func, ...): (out, True) or, for an Exception, (e, False); any other
\* exception passes through
timed(o) ==
  IF o.res # "raise" THEN [ok |-> TRUE, out |-> o, uncaught |-> FALSE]
  ELSE IF o.exc \in ExceptionTypes THEN [ok |-> FALSE, out |-> o, uncaught |-> FALSE]
  ELSE [ok |-> FALSE, out |-> o, uncaught |-> TRUE]

\* format_response(source, result if ok else f"<label> error -- {result}");
\* the source names are written without their emoji and the dash of the
\* labels as "--"
format_response(source, label, t) ==
  [kind |-> "response", source |-> source,
   prefix |-> IF t.ok THEN "" ELSE label,
   body |-> t.out]

Banner(m) ==
  [kind |-> "message", source |-> m, prefix |-> "", body |-> Answer("none", <<>>, NoVal, "", "")]

ExitWords == {<<"e", "x", "i", "t">>, <<"q", "u", "i", "t">>, <<"s", "a", "i", "r">>}

\* ===================================================== state machines
\* expr, result: the argument and the outcome of a call of safe_eval.
\* text, isMath, extracted, answer: the argument and the outcomes of calls
\* of is_math_question, extract_expression and handle_math.
\* pc: the statement the interactive loop is at ("none" outside the loop);
\* screen: what the current turn printed; turn: the inputs read so far;
\* exit: how the process ended ("" while it runs).
VARIABLES expr, result, text, isMath, extracted, answer, pc, screen, turn, exit

\* call: the arguments of a call of CurrencyClient.convert; from_currency,
\* to_currency, last_error: its locals; api: the position of the for loop in
\* apis_to_try (0 before the loop); tried: the providers called so far, each
\* with how its call ended; stage: the statement convert is at ("none"
\* outside convert); outcome: how convert ended.
VARIABLES call, from_currency, to_currency, api, last_error, tried, stage, outcome

mainVars == <<expr, result, text, isMath, extracted, answer, pc, screen, turn, exit>>

convertVars == <<call, from_currency, to_currency, api, last_error, tried, stage, outcome>>

vars == <<mainVars, convertVars>>

NoLoop == pc = "none" /\ screen = <<>> /\ turn = 0 /\ exit = ""

NoConvert ==
  /\ call = [amount |-> 0, from_currency |-> <<>>, to_currency |-> <<>>]
  /\ from_currency = <<>>
  /\ to_currency = <<>>
  /\ api = 0
  /\ last_error = NoError
  /\ tried = <<>>
  /\ stage = "none"
  /\ outcome = NotReturned

Pending == [res |-> "pending", val |-> NoVal, exc |-> "", msg |-> "", cause |-> ""]
NoCall == [res |-> "none", val |-> NoVal, exc |-> "", msg |-> "", cause |-> ""]
PendingBool == [done |-> FALSE, v |-> FALSE]
PendingStr == [ty |-> "pending", s |-> <<>>, v |-> 0]
PendingAnswer == Answer("pending", <<>>, NoVal, "", "")

\* all strings over alphabet cs of length 0..n
StringsUpTo(cs, n) == UNION {[1..k -> cs] : k \in 0..n}

\* ------------------------------------------------- safe_eval on its own
EvalAlphabet == {"0", "2", ".", "+", "-", "*", "/", "^", "(", ")", " ", "a"}

EvalExamples ==
  {<<"2", "^", "1", "0">>,
   <<"2", "^", "3", "^", "2">>,
   <<"1", "0", "/", "4">>,
   <<"2", "+", "2">>,
   <<"5", "/", "0">>,
   <<"1", "/", "(", "2", "-", "2", ")">>,
   <<"_", "_", "i", "m", "p", "o", "r", "t", "_", "_", "(", "'", "o", "s", "'", ")">>,
   <<"o", "p", "e", "n", "(", "'", "f", "'", ")">>,
   <<"(", "-", "1", ")", "^", ".", "5">>,
   <<"T", "r", "u", "e">>,
   <<"1", "j">>,
   <<"1", "/", "0", "j">>,
   <<"9", ".", "^", "9", "9", "9">>,
   <<"0", "^", "-", "1">>,
   <<"1", "/", "0", "+", "a">>,
   <<"1", "/", "0", "*", "a">>,
   <<"1", "2", "8", " ", "*", " ", "4", "6">>,
   <<" ", "2", "+", "2">>,
   <<"2", "+", "2", " ">>,
   <<"0", "0", "7", "+", "1">>,
   <<"4", "/", "2">>,
   <<"2", ".", "0", "*", "3">>,
   <<"2", " ", "+", " ", "3", " ", "*", " ", "4">>,
   <<"(", "2", "+", "3", ")", "*", "4">>,
   <<"8", "/", "4", "/", "2">>,
   <<"8", "-", "4", "-", "2">>,
   <<"-", "2", "^", "2">>,
   <<"2", "^", "-", "1">>,
   <<"1", "/", "/", "2">>,
   <<"a", ".", "b">>,
   <<"'", "s", "'">>}

EvalInputs ==
  {PyStr(s) : s \in StringsUpTo(EvalAlphabet, MaxLen) \cup EvalExamples}
    \cup {PyNone, PyInt(0), PyInt(5)}

InitEval ==
  /\ expr \in {x \in EvalInputs : safe_eval(x).res # "beyond"}
  /\ result = Pending
  /\ text = PyNone
  /\ isMath = PendingBool
  /\ extracted = PendingStr
  /\ answer = Answer("none", <<>>, NoVal, "", "")
  /\ NoLoop
  /\ NoConvert

SafeEval ==
  /\ pc = "none"
  /\ result.res = "pending"
  /\ result' = safe_eval(expr)
  /\ UNCHANGED <<expr, text, isMath, extracted, answer, pc, screen, turn, exit>>
  /\ UNCHANGED convertVars

NextEval == SafeEval

SpecEval == InitEval /\ [][NextEval]_vars

\* ------------------------------------- the text helpers on their own
TextAlphabet == {"1", "/", " ", ".", "a", "U+0663"}

TextExamples ==
  {<<"w", "h", "a", "t", " ", "i", "s", " ", "2", "+", "2">>,
   <<"h", "e", "l", "l", "o", " ", "w", "o", "r", "l", "d">>,
   <<"w", "h", "a", "t", " ", "i", "s", " ", "2", " ", "+", " ", "2", " ", "p", "l", "e", "a", "s", "e">>,
   <<"2", "+", "2">>,
   <<"4", "/", "2">>,
   <<"2", ".", "0", "*", "3">>,
   <<"1", "0", "/", "4">>,
   <<"1", "+", "1", "a", " ", " ", " ", " ", "b">>,
   <<"1", " ", "a", "+", "+">>,
   <<"+", "+", "a", " ", "1">>,
   <<"W", "h", "a", "t", " ", "i", "s", " ", "1", "2", "8", " ", "*", " ", "4", "6", "?">>,
   <<"7", " ", "/", " ", "2">>,
   <<"x", " ", "1", "/", "0">>,
   <<"1", " ", "+">>}

TextInputs ==
  {PyStr(s) : s \in StringsUpTo(TextAlphabet, MaxTextLen) \cup TextExamples}
    \cup {PyNone}

InitText ==
  /\ text \in {x \in TextInputs : handle_math(x).res # "beyond"}
  /\ isMath = PendingBool
  /\ extracted = PendingStr
  /\ answer = PendingAnswer
  /\ expr = PyNone
  /\ result = NoCall
  /\ NoLoop
  /\ NoConvert

IsMathQuestion ==
  /\ pc = "none"
  /\ ~isMath.done
  /\ isMath' = [done |-> TRUE, v |-> is_math_question(text)]
  /\ UNCHANGED <<expr, result, text, extracted, answer, pc, screen, turn, exit>>
  /\ UNCHANGED convertVars

ExtractExpression ==
  /\ pc = "none"
  /\ isMath.done
  /\ extracted.ty = "pending"
  /\ extracted' = extract_expression(text)
  /\ UNCHANGED <<expr, result, text, isMath, answer, pc, screen, turn, exit>>
  /\ UNCHANGED convertVars

HandleMath ==
  /\ pc = "none"
  /\ extracted.ty # "pending"
  /\ answer.res = "pending"
  /\ answer' = handle_math(text)
  /\ UNCHANGED <<expr, result, text, isMath, extracted, pc, screen, turn, exit>>
  /\ UNCHANGED convertVars

NextText == IsMathQuestion \/ ExtractExpression \/ HandleMath

SpecText == InitText /\ [][NextText]_vars

\* ============================================== properties of safe_eval
Done == result.res \notin {"pending", "none"}

\* expr is a non-empty str, so that safe_eval hands it to the parser
IsSource == expr.ty = "str" /\ expr.s # <<>>

Parsed == AstParse(Replace(expr.s))

\* the three node shapes the walk is said to evaluate: a numeric literal,
\* a binary + - * / **, a unary - +
RECURSIVE Whitelisted(_)
Whitelisted(node) ==
  CASE node.type = "Constant" -> node.val.k \in {"int", "float", "complex"}
    [] node.type = "BinOp" ->
         /\ node.op \in {"Add", "Sub", "Mult", "Div", "Pow"}
         /\ Whitelisted(node.left)
         /\ Whitelisted(node.right)
    [] node.type = "UnaryOp" -> node.op \in {"USub", "UAdd"} /\ Whitelisted(node.operand)
    [] OTHER -> FALSE

\* the operator application at which the walk of node stopped: the first,
\* in evaluation order, whose operands were both computed and which did
\* not return
NoFault == [found |-> FALSE, op |-> "", l |-> NoVal, r |-> NoVal]

RECURSIVE FaultAt(_)
FaultAt(node) ==
  IF node.type = "BinOp" /\ node.op \in ALLOWED THEN
    LET l == _eval(node.left)
    IN IF l.res # "value" THEN FaultAt(node.left)
       ELSE LET r == _eval(node.right)
            IN IF r.res # "value" THEN FaultAt(node.right)
               ELSE IF ApplyBin(node.op, l.val, r.val).res = "raise"
                 THEN [found |-> TRUE, op |-> node.op, l |-> l.val, r |-> r.val]
               ELSE NoFault
  ELSE IF node.type = "UnaryOp" /\ node.op \in ALLOWED THEN FaultAt(node.operand)
  ELSE NoFault

Fault == IF IsSource /\ Parsed.ok THEN FaultAt(Parsed.node) ELSE NoFault

\* a division whose right operand evaluated to zero was reached
DivZeroCase == Fault.found /\ Fault.op = "Div" /\ Fault.r.n = 0

\* zero was raised to a negative power
ZeroNegPowCase == Fault.found /\ Fault.op = "Pow" /\ Fault.l.n = 0 /\ Fault.r.n < 0

\* an allowed operator failed otherwise than by a zero division
OtherArithCase == Fault.found /\ ~DivZeroCase /\ ~ZeroNegPowCase

Failed == result.res = "raise"
InvalidKind == Failed /\ result.msg \in {MsgEmpty, MsgInvalid}
UnsupportedKind == Failed /\ result.msg = MsgUnsupported
DivZeroKind == Failed /\ result.msg = MsgDivZero

\* C1: a parsed tree with a node outside the three whitelisted shapes makes
\* safe_eval fail with the unsupported-structure error, never return.
C1_OnlyWhitelistedShapes ==
  (Done /\ IsSource /\ Parsed.ok /\ ~Whitelisted(Parsed.node))
    => (result.res = "raise" /\ result.exc = "EvalError" /\ UnsupportedKind)

\* C2: a call of safe_eval either returns a value or raises EvalError; no
\* other exception type reaches the caller.
C2_ValueOrEvalError ==
  Done => \/ result.res = "value"
          \/ result.res = "raise" /\ result.exc = "EvalError"

C2_Witness ==
  /\ Done
  /\ result.res = "raise"
  /\ result.exc = "EvalError"
  /\ result.cause \in {"SyntaxError", "OverflowError"}

\* C6: every value safe_eval returns is an int or a float, never a complex
\* number or a bool.
C6_IntOrFloat ==
  (Done /\ result.res = "value") => result.val.k \in {"int", "float"}

MVal(n, d, p) ==
  LET g == GCD(Abs(n), d)
      n1 == n \div g
      d1 == d \div g
  IN IF Abs(n1) > MaxMagnitude \/ d1 > MaxMagnitude
       THEN [st |-> "far", n |-> 0, d |-> 1, p |-> p]
       ELSE [st |-> "ok", n |-> n1, d |-> d1, p |-> p]

MNo(st) == [st |-> st, n |-> 0, d |-> 1, p |-> 0]

Skip(s, p) == RunEnd(s, p, Whitespace)
At(s, p, c) == Skip(s, p) <= Len(s) /\ s[Skip(s, p)] = c

MPowVal(a, b, p) ==
  IF b.d # 1 THEN MNo("far")
  ELSE IF b.n >= 0
    THEN LET pn == PowIter(a.n, b.n, 1)
             pd == PowIter(a.d, b.n, 1)
         IN IF Abs(pn) > MaxMagnitude \/ pd > MaxMagnitude THEN MNo("far")
            ELSE MVal(pn, pd, p)
  ELSE IF a.n = 0 THEN MNo("undef")
  ELSE LET pn == PowIter(IF a.n > 0 THEN a.d ELSE -a.d, -b.n, 1)
           pd == PowIter(Abs(a.n), -b.n, 1)
       IN IF Abs(pn) > MaxMagnitude \/ pd > MaxMagnitude THEN MNo("far")
          ELSE MVal(pn, pd, p)

\* The grammar of written arithmetic, one rule per case; acc is the value
\* accumulated so far by the left-associative rules.
RECURSIVE MParse(_, _, _, _)
MParse(rule, s, acc, p) ==
  CASE rule = "expr" ->
         LET l == MParse("term", s, acc, p)
         IN IF l.st = "ok" THEN MParse("expr_rest", s, l, l.p) ELSE l
    [] rule = "expr_rest" ->
         IF At(s, p, "+") \/ At(s, p, "-")
           THEN LET r == MParse("term", s, acc, Skip(s, p) + 1)
                IN IF r.st # "ok" THEN r
                   ELSE LET v == IF At(s, p, "+")
                                   THEN MVal(acc.n * r.d + r.n * acc.d, acc.d * r.d, r.p)
                                   ELSE MVal(acc.n * r.d - r.n * acc.d, acc.d * r.d, r.p)
                        IN IF v.st = "ok" THEN MParse("expr_rest", s, v, r.p) ELSE v
           ELSE [acc EXCEPT !.p = p]
    [] rule = "term" ->
         LET l == MParse("unary", s, acc, p)
         IN IF l.st = "ok" THEN MParse("term_rest", s, l, l.p) ELSE l
    [] rule = "term_rest" ->
         IF At(s, p, "*") \/ At(s, p, "/")
           THEN LET r == MParse("unary", s, acc, Skip(s, p) + 1)
                IN IF r.st # "ok" THEN r
                   ELSE LET v == IF At(s, p, "*") THEN MVal(acc.n * r.n, acc.d * r.d, r.p)
                                 ELSE IF r.n = 0 THEN MNo("undef")
                                 ELSE IF r.n > 0 THEN MVal(acc.n * r.d, acc.d * r.n, r.p)
                                 ELSE MVal(-(acc.n * r.d), acc.d * (-r.n), r.p)
                        IN IF v.st = "ok" THEN MParse("term_rest", s, v, r.p) ELSE v
           ELSE [acc EXCEPT !.p = p]
    [] rule = "unary" ->
         IF At(s, p, "-")
           THEN LET r == MParse("unary", s, acc, Skip(s, p) + 1)
                IN IF r.st = "ok" THEN MVal(-r.n, r.d, r.p) ELSE r
         ELSE IF At(s, p, "+") THEN MParse("unary", s, acc, Skip(s, p) + 1)
         ELSE MParse("power", s, acc, p)
    [] rule = "power" ->
         LET a == MParse("atom", s, acc, p)
         IN IF a.st # "ok" THEN a
            ELSE IF At(s, a.p, "^")
              THEN LET r == MParse("unary", s, acc, Skip(s, a.p) + 1)
                   IN IF r.st = "ok" THEN MPowVal(a, r, r.p) ELSE r
              ELSE a
    [] rule = "atom" ->
         LET q == Skip(s, p)
         IN IF q > Len(s) THEN MNo("ill")
            ELSE IF s[q] \in Digits
              THEN LET e == RunEnd(s, q, Digits)
                       v == DigitsVal(s, q, e, 0)
                   IN IF v > MaxMagnitude THEN MNo("far") ELSE MVal(v, 1, e)
            ELSE IF s[q] = "("
              THEN LET r == MParse("expr", s, acc, q + 1)
                   IN IF r.st # "ok" THEN r
                      ELSE IF At(s, r.p, ")") THEN [r EXCEPT !.p = Skip(s, r.p) + 1]
                      ELSE MNo("ill")
            ELSE MNo("ill")

MathValue(s) ==
  LET r == MParse("expr", s, MNo("ok"), 1)
  IN IF r.st # "ok" THEN r
     ELSE IF Skip(s, r.p) = Len(s) + 1 THEN r ELSE MNo("ill")

ArithChars == Digits \cup {"+", "-", "*", "/", "^", "(", ")"} \cup Whitespace

\* C3: on a well-formed arithmetic string of digits, + - * / ^ ( ) and
\* blanks (leading blanks and leading zeros included), safe_eval returns the
\* number the string denotes.
C3_ArithmeticValue ==
  (Done /\ IsSource /\ (\A i \in 1..Len(expr.s) : expr.s[i] \in ArithChars)
        /\ MathValue(expr.s).st = "ok")
    => /\ result.res = "value"
       /\ result.val.k \in {"int", "float"}
       /\ result.val.n = MathValue(expr.s).n
       /\ result.val.d = MathValue(expr.s).d

\* the same, for strings that start with no blank and whose numbers have no
\* superfluous leading zero
C3_PlainArithmeticValue ==
  (Done /\ IsSource /\ (\A i \in 1..Len(expr.s) : expr.s[i] \in ArithChars)
        /\ MathValue(expr.s).st = "ok"
        /\ expr.s[1] \notin Whitespace
        /\ \A i \in 1..Len(expr.s) - 1 :
             (expr.s[i] = "0" /\ expr.s[i + 1] \in Digits)
               => (i > 1 /\ expr.s[i - 1] \in Digits))
    => /\ result.res = "value"
       /\ result.val.k \in {"int", "float"}
       /\ result.val.n = MathValue(expr.s).n
       /\ result.val.d = MathValue(expr.s).d

\* ========================================== properties of the text helpers
\* the character class [0-9+-*/^(). whitespace] as the claims spell it
ClaimClass ==
  {"0", "1", "2", "3", "4", "5", "6", "7", "8", "9",
   "+", "-", "*", "/", "^", "(", ")", ".", " ", "\t"}

ClaimBlank == {" ", "\t"}

\* (a) only characters of the class, a digit and an operator character
StrictForm(t) ==
  /\ \A i \in 1..Len(t) : t[i] \in ClaimClass
  /\ \E i \in 1..Len(t) : t[i] \in Digits
  /\ \E i \in 1..Len(t) : t[i] \in {"+", "-", "*", "/", "^"}

\* (b) somewhere: digits, optional blanks, one operator, optional blanks,
\* digits
LooseForm(t) ==
  \E a, b, c \in 1..Len(t) :
    /\ a < b
    /\ b < c
    /\ t[a] \in RegexDigit
    /\ t[b] \in {"+", "-", "*", "/", "^"}
    /\ t[c] \in RegexDigit
    /\ \A k \in (a + 1)..(b - 1) : t[k] \in ClaimBlank
    /\ \A k \in (b + 1)..(c - 1) : t[k] \in ClaimBlank

\* C8: is_math_question(text) is true exactly when text is non-empty and
\* has the strict form (a) or the loose form (b).
C8_IsMathQuestion ==
  isMath.done =>
    (isMath.v <=> /\ text.ty = "str"
                  /\ text.s # <<>>
                  /\ StrictForm(text.s) \/ LooseForm(text.s))

C8_Witness ==
  /\ isMath.done
  /\ isMath.v
  /\ ~StrictForm(text.s)
  /\ \E i \in 1..Len(text.s) : text.s[i] \in ClaimBlank

\* t[i..j] is a maximal run of characters of the class
IsMaxRun(t, i, j) ==
  /\ i <= j
  /\ \A k \in i..j : t[k] \in ClaimClass
  /\ i = 1 \/ t[i - 1] \notin ClaimClass
  /\ j = Len(t) \/ t[j + 1] \notin ClaimClass

\* the longest maximal run, the first of them on equal length
IsChosenRun(t, i, j) ==
  /\ IsMaxRun(t, i, j)
  /\ \A i2, j2 \in 1..Len(t) :
       IsMaxRun(t, i2, j2) => (j2 - i2 < j - i \/ (j2 - i2 = j - i /\ i2 >= i))

WithoutBlanks(t) == SelectSeq(t, LAMBDA c : c \notin ClaimBlank)

\* C9: extract_expression(text) is the longest maximal run of class
\* characters (blanks counted, first on ties) with its blanks removed, and
\* null when there is no run or nothing is left; the returned string has no
\* blank and only characters of the class.
C9_ExtractExpression ==
  extracted.ty # "pending" =>
    /\ extracted.ty \in {"str", "NoneType"}
    /\ IF text.ty # "str" \/ \A k \in 1..Len(text.s) : text.s[k] \notin ClaimClass
         THEN extracted = PyNone
         ELSE \E i, j \in 1..Len(text.s) :
                /\ IsChosenRun(text.s, i, j)
                /\ LET cleaned == WithoutBlanks(SubSeq(text.s, i, j))
                   IN IF cleaned = <<>> THEN extracted = PyNone
                      ELSE extracted = PyStr(cleaned)
    /\ extracted.ty = "str" =>
         /\ extracted.s # <<>>
         /\ \A k \in 1..Len(extracted.s) : extracted.s[k] \in ClaimClass \ ClaimBlank

\* a tie: a later maximal run as long as the chosen one, and blanks removed
C9_Witness ==
  /\ extracted.ty = "str"
  /\ \E i, j, i2, j2 \in 1..Len(text.s) :
       /\ IsChosenRun(text.s, i, j)
       /\ IsMaxRun(text.s, i2, j2)
       /\ i2 > i
       /\ j2 - i2 = j - i
       /\ Len(extracted.s) < j - i + 1

\* the number safe_eval computed for the extracted expression
Computed == safe_eval(extract_expression(text)).val

\* C7: a computed float with zero fractional part is presented as the
\* integer; a float with a non-zero fractional part stays a float.
C7_IntegralPresentedAsInt ==
  answer.res = "value" =>
    /\ (Computed.k = "float" /\ Computed.d = 1)
         => (answer.val.k = "int" /\ answer.val.n = Computed.n /\ answer.val.d = 1)
    /\ (Computed.k = "float" /\ Computed.d # 1) => answer.val = Computed
    /\ Computed.k = "int" => answer.val = Computed

C7_Witness ==
  /\ answer.res = "value"
  /\ Computed.k = "float"
  /\ Computed.d = 1
  /\ answer.val.k = "int"

\* ------------------------------------------------ the interactive loop
MaxLineLen == 2

LineAlphabet == {"1", "0", "/", " ", "a"}

LineExamples ==
  {<<"2", "+", "2">>,
   <<"w", "h", "a", "t", " ", "i", "s", " ", "2", "+", "2">>,
   <<"5", "/", "0">>,
   <<"1", "+", "1", "a", " ", " ", " ", " ", "b">>,
   <<"h", "e", "l", "l", "o", " ", "w", "o", "r", "l", "d">>,
   <<"e", "x", "i", "t">>,
   <<"Q", "U", "I", "T">>,
   <<" ", "S", "a", "i", "r", " ">>,
   <<"e", "x", "i", "t", " ", "n", "o", "w">>,
   <<" ", " ", " ">>,
   <<"W", "e", "a", "t", "h", "e", "r", " ", "i", "n", " ", "R", "o", "m", "e">>,
   <<"c", "o", "n", "v", "e", "r", "t", " ", "1", "0", "0", " ", "U", "S", "D", " ", "t", "o", " ", "B", "R", "L">>,
   <<"1", "0", "0", " ", "u", "s", "d", " ", "i", "n", " ", "e", "u", "r">>,
   <<"W", "h", "o", " ", "w", "a", "s", " ", "A", "l", "b", "e", "r", "t", " ", "E", "i", "n", "s", "t", "e", "i", "n", "?">>,
   <<"(", "-", "1", ")", "^", ".", "5">>,
   <<"2", "+">>,
   <<"9", ".", "^", "9", "9", "9">>,
   <<"4", "/", "2">>,
   <<"1", "0", "/", "4">>,
   <<"0", "0", "7", "+", "1">>,
   <<" ", "2", " ", "+", " ", "2", " ">>,
   <<"t", "e", "m", "p", "e", "r", "a", "t", "u", "r", "e", " ", "2", "+", "2">>,
   <<"W", "h", "a", "t", " ", "i", "s", " ", "1", "2", "8", " ", "*", " ", "4", "6", "?">>,
   <<"1", "/", "(", "2", "-", "2", ")">>,
   <<"w", "e", "a", "t", "h", "e", "r", " ", "c", "o", "n", "v", "e", "r", "t", " ", "1", "0">>,
   <<"c", "o", "n", "v", "e", "r", "t", " ", "1", "+", "1">>}

LoopLines ==
  {l \in StringsUpTo(LineAlphabet, MaxLineLen) \cup LineExamples :
     handle_math(PyStr(Strip(l))).res # "beyond"}

InitLoop ==
  /\ pc = "input"
  /\ screen = <<>>
  /\ turn = 0
  /\ exit = ""
  /\ text = PyNone
  /\ isMath = PendingBool
  /\ extracted = PendingStr
  /\ expr = PyNone
  /\ result = Pending
  /\ answer = PendingAnswer
  /\ NoConvert

\* q = input("You: ").strip(), then the empty and the exit tests
ReadInput ==
  /\ pc = "input"
  /\ exit = ""
  /\ turn < MaxTurns
  /\ \E line \in LoopLines :
       LET q == Strip(line)
       IN /\ text' = PyStr(q)
          /\ IF q = <<>> THEN pc' = "input" /\ exit' = ""
             ELSE IF Lower(q) \in ExitWords THEN pc' = "exited" /\ exit' = "command"
             ELSE pc' = "classify" /\ exit' = ""
  /\ turn' = turn + 1
  /\ screen' = <<>>
  /\ isMath' = PendingBool
  /\ extracted' = PendingStr
  /\ expr' = PyNone
  /\ result' = Pending
  /\ answer' = PendingAnswer
  /\ UNCHANGED convertVars

\* KeyboardInterrupt or EOFError at the prompt
InputInterrupt ==
  /\ pc = "input"
  /\ exit = ""
  /\ screen' = Append(screen, Banner("Exiting."))
  /\ pc' = "exited"
  /\ exit' = "eof"
  /\ UNCHANGED <<expr, result, text, isMath, extracted, answer, turn>>
  /\ UNCHANGED convertVars

\* the chain with the weather test put before the math test
Classify_WeatherFirst ==
  /\ pc = "classify"
  /\ isMath' = [done |-> TRUE, v |-> is_math_question(text)]
  /\ IF is_weather_query(text)
       THEN pc' = "weather" /\ screen' = Append(screen, Banner("UI_WEATHER_MSG"))
     ELSE IF is_math_question(text)
       THEN pc' = "extract" /\ screen' = Append(screen, Banner("UI_MATH_MSG"))
     ELSE IF is_currency_query(text)
       THEN pc' = "currency" /\ screen' = Append(screen, Banner("UI_CURRENCY_MSG"))
     ELSE pc' = "llm" /\ screen' = Append(screen, Banner("UI_LLM_MSG"))
  /\ UNCHANGED <<expr, result, text, extracted, answer, turn, exit>>
  /\ UNCHANGED convertVars

\* the chain of classifier tests; the first that accepts prints its message
Classify ==
  /\ pc = "classify"
  /\ isMath' = [done |-> TRUE, v |-> is_math_question(text)]
  /\ IF is_math_question(text)
       THEN pc' = "extract" /\ screen' = Append(screen, Banner("UI_MATH_MSG"))
     ELSE IF is_weather_query(text)
       THEN pc' = "weather" /\ screen' = Append(screen, Banner("UI_WEATHER_MSG"))
     ELSE IF is_currency_query(text)
       THEN pc' = "currency" /\ screen' = Append(screen, Banner("UI_CURRENCY_MSG"))
     ELSE pc' = "llm" /\ screen' = Append(screen, Banner("UI_LLM_MSG"))
  /\ UNCHANGED <<expr, result, text, extracted, answer, turn, exit>>
  /\ UNCHANGED convertVars

\* handle_math: expr = extract_expression(question); raise if there is none
Extract ==
  /\ pc = "extract"
  /\ extracted' = extract_expression(text)
  /\ IF Truthy(extract_expression(text))
       THEN expr' = extract_expression(text) /\ pc' = "eval" /\ answer' = answer
       ELSE expr' = expr /\ pc' = "print_math" /\ answer' = NoExpression
  /\ UNCHANGED <<result, text, isMath, screen, turn, exit>>
  /\ UNCHANGED convertVars

\* handle_math: result = safe_eval(expr)
Eval ==
  /\ pc = "eval"
  /\ result' = safe_eval(expr)
  /\ IF result'.res = "raise"
       THEN pc' = "print_math" /\ answer' = PresentResult(expr, result')
       ELSE pc' = "present" /\ answer' = answer
  /\ UNCHANGED <<expr, text, isMath, extracted, screen, turn, exit>>
  /\ UNCHANGED convertVars

\* handle_math: the int conversion and the f-string
Present ==
  /\ pc = "present"
  /\ answer' = PresentResult(expr, result)
  /\ pc' = "print_math"
  /\ UNCHANGED <<expr, result, text, isMath, extracted, screen, turn, exit>>
  /\ UNCHANGED convertVars

\* a KeyboardInterrupt while handle_math runs
MathInterrupt ==
  /\ pc \in {"extract", "eval", "present"}
  /\ answer' = Answer("raise", <<>>, NoVal, "KeyboardInterrupt", "")
  /\ pc' = "print_math"
  /\ UNCHANGED <<expr, result, text, isMath, extracted, screen, turn, exit>>
  /\ UNCHANGED convertVars

\* what a handler that calls the network can produce
NetOutcomes(err) ==
  {Answer("value", <<>>, NoVal, "", ""),
   Answer("raise", <<>>, NoVal, err, ""),
   Answer("raise", <<>>, NoVal, "Exception", ""),
   Answer("raise", <<>>, NoVal, "KeyboardInterrupt", "")}

HandleWeather ==
  /\ pc = "weather"
  /\ answer' \in NetOutcomes("WeatherError")
  /\ pc' = "print_weather"
  /\ UNCHANGED <<expr, result, text, isMath, extracted, screen, turn, exit>>
  /\ UNCHANGED convertVars

HandleCurrency ==
  /\ pc = "currency"
  /\ answer' \in NetOutcomes("CurrencyError")
  /\ pc' = "print_currency"
  /\ UNCHANGED <<expr, result, text, isMath, extracted, screen, turn, exit>>
  /\ UNCHANGED convertVars

AskLlm ==
  /\ pc = "llm"
  /\ answer' \in NetOutcomes("Exception")
  /\ pc' = "print_llm"
  /\ UNCHANGED <<expr, result, text, isMath, extracted, screen, turn, exit>>
  /\ UNCHANGED convertVars

\* result, ok, dt = timed(...); print(format_response(...)); continue
Respond(source, label) ==
  /\ LET t == timed(answer)
     IN IF t.uncaught
          THEN /\ pc' = "exited"
               /\ exit' = IF answer.exc = "KeyboardInterrupt" THEN "interrupt" ELSE "crash"
               /\ screen' = screen
          ELSE /\ pc' = "input"
               /\ exit' = exit
               /\ screen' = Append(screen, format_response(source, label, t))
  /\ UNCHANGED <<expr, result, text, isMath, extracted, answer, turn>>
  /\ UNCHANGED convertVars

PrintMath ==
  /\ pc = "print_math"
  /\ Respond("Calculator", "Math error -- ")

PrintWeather ==
  /\ pc = "print_weather"
  /\ Respond("Weather API", "Weather error -- ")

PrintCurrency ==
  /\ pc = "print_currency"
  /\ Respond("Currency API", "Currency error -- ")

PrintLlm ==
  /\ pc = "print_llm"
  /\ Respond("LLM", "LLM error -- ")

NextLoop ==
  \/ ReadInput
  \/ InputInterrupt
  \/ Classify
  \/ Extract
  \/ Eval
  \/ Present
  \/ MathInterrupt
  \/ HandleWeather
  \/ HandleCurrency
  \/ AskLlm
  \/ PrintMath
  \/ PrintWeather
  \/ PrintCurrency
  \/ PrintLlm

SpecLoop == InitLoop /\ [][NextLoop]_vars

\* the math path failed with an EvalError and timed is about to return
MathFailed == pc = "print_math" /\ answer.res = "raise" /\ answer.exc = "EvalError"

Responses(scr) == SelectSeq(scr, LAMBDA e : e.kind = "response")

\* C10: after a math failure with an EvalError the dispatcher prints exactly
\* one response carrying the message and prompts again; the process ends
\* only on exit/quit/sair, on EOF or on a keyboard interrupt; safe_eval is
\* called only after is_math_question said yes and extract_expression gave
\* a non-empty expression.
C10_LoopSurvivesMathErrors ==
  /\ [][/\ MathFailed =>
             /\ pc' = "input"
             /\ exit' = ""
             /\ Len(Responses(screen')) = 1
             /\ Responses(screen')[1].prefix = "Math error -- "
             /\ Responses(screen')[1].body.msg = answer.msg
        /\ (exit = "" /\ exit' # "") =>
             \/ pc = "input" /\ exit' = "eof"
             \/ pc = "input" /\ exit' = "command" /\ Lower(text'.s) \in ExitWords
             \/ exit' = "interrupt"]_vars
  /\ [](result.res # "pending" =>
          /\ isMath.done
          /\ isMath.v
          /\ extracted.ty = "str"
          /\ extracted.s # <<>>
          /\ expr = extracted)

\* back at the prompt after a failed calculation
C10_Witness ==
  /\ pc = "input"
  /\ exit = ""
  /\ answer.res = "raise"
  /\ answer.exc = "EvalError"
  /\ result.res = "raise"
  /\ Len(Responses(screen)) = 1

\* ------------------------------------------------- the dispatch order
\* the handler the loop is in: handle_math from extract to print_math, the
\* others from their call to their print; "none" at the prompt, in the
\* classifier chain and after the end
Handler(at) ==
  CASE at \in {"extract", "eval", "present", "print_math"} -> "math"
    [] at \in {"weather", "print_weather"} -> "weather"
    [] at \in {"currency", "print_currency"} -> "currency"
    [] at \in {"llm", "print_llm"} -> "llm"
    [] OTHER -> "none"

\* where each handler's call starts
HandlerEntry(h) ==
  CASE h = "math" -> "extract"
    [] h = "weather" -> "weather"
    [] h = "currency" -> "currency"
    [] h = "llm" -> "llm"

\* the first intent, in the order math, weather, currency, whose
\* classifier accepts t; the language model when none does
FirstAccepting(t) ==
  IF is_math_question(t) THEN "math"
  ELSE IF is_weather_query(t) THEN "weather"
  ELSE IF is_currency_query(t) THEN "currency"
  ELSE "llm"

\* C11: every non-empty, non-exit input gets exactly one handler, that of
\* the first intent in the order math, weather, currency whose classifier
\* accepts it, the language model exactly when none accepts; once a handler
\* has been called no other is called before the next input, whether it
\* failed or not.
C11_FirstAcceptingHandlerOnly ==
  [][/\ pc = "classify" =>
          /\ text.s # <<>>
          /\ Lower(text.s) \notin ExitWords
          /\ Handler(pc') = FirstAccepting(text)
          /\ pc' = HandlerEntry(Handler(pc'))
          /\ (Handler(pc') = "llm") <=>
               (~is_math_question(text) /\ ~is_weather_query(text)
                  /\ ~is_currency_query(text))
     /\ (Handler(pc) = "none" /\ Handler(pc') # "none") => pc = "classify"
     /\ Handler(pc) # "none" =>
          /\ Handler(pc') \in {Handler(pc), "none"}
          /\ Handler(pc') = "none" => pc' \in {"input", "exited"}
     /\ (pc = "input" /\ pc' = "classify") =>
          (text'.s # <<>> /\ Lower(text'.s) \notin ExitWords)
     /\ (pc = "input" /\ pc' # "classify") =>
          (exit' = "eof" \/ text'.s = <<>> \/ Lower(text'.s) \in ExitWords)]_vars

\* back at the prompt after the weather handler failed on an input that the
\* currency classifier accepts too: one response, from the weather path
C11_Witness ==
  /\ pc = "input"
  /\ exit = ""
  /\ is_weather_query(text)
  /\ is_currency_query(text)
  /\ ~is_math_question(text)
  /\ answer.res = "raise"
  /\ answer.exc = "WeatherError"
  /\ Len(Responses(screen)) = 1
  /\ Responses(screen)[1].source = "Weather API"

\* ------------------------------------------------ CurrencyClient.convert
\* the amounts and the currency codes convert is called with; "XYZ" is in
\* no table
ConvertAmounts == {1, 100}

ConvertCodes ==
  {<<"U", "S", "D">>, <<"u", "s", "d">>, <<"U", "s", "d">>, <<"B", "R", "L">>,
   <<"e", "u", "r">>, <<"X", "Y", "Z">>, <<"x", "y", "z">>}

InitConvert ==
  /\ call \in [amount : ConvertAmounts, from_currency : ConvertCodes, to_currency : ConvertCodes]
  /\ from_currency = call.from_currency
  /\ to_currency = call.to_currency
  /\ api = 0
  /\ last_error = NoError
  /\ tried = <<>>
  /\ stage = "upper"
  /\ outcome = NotReturned
  /\ expr = PyNone
  /\ result = NoCall
  /\ text = PyNone
  /\ isMath = PendingBool
  /\ extracted = PendingStr
  /\ answer = Answer("none", <<>>, NoVal, "", "")
  /\ NoLoop

\* from_currency = from_currency.upper(); to_currency = to_currency.upper();
\* the same-currency return; apis_to_try and last_error = None
SameOrLoop ==
  /\ stage = "upper"
  /\ from_currency' = Upper(from_currency)
  /\ to_currency' = Upper(to_currency)
  /\ IF from_currency' = to_currency'
       THEN /\ outcome' = SameCurrency(call.amount, from_currency', to_currency')
            /\ stage' = "done"
            /\ api' = api
       ELSE /\ outcome' = outcome
            /\ stage' = "loop"
            /\ api' = 1
  /\ last_error' = NoError
  /\ UNCHANGED <<call, tried>>
  /\ UNCHANGED mainVars

\* one pass of "for api_func in apis_to_try": the call returns, or raises an
\* Exception that is kept as last_error, or raises past the except clause
TryApi ==
  /\ stage = "loop"
  /\ api \in 1..Len(apis_to_try)
  /\ \E o \in CallApi(apis_to_try[api], call.amount, from_currency, to_currency) :
       /\ tried' = Append(tried, [api_func |-> apis_to_try[api], out |-> o])
       /\ IF o.res = "raise" /\ o.exc \in CaughtInConvert
            THEN /\ last_error' = o.msg
                 /\ api' = api + 1
                 /\ stage' = "loop"
                 /\ outcome' = outcome
            ELSE /\ last_error' = last_error
                 /\ api' = api
                 /\ stage' = "done"
                 /\ outcome' = o
  /\ UNCHANGED <<call, from_currency, to_currency>>
  /\ UNCHANGED mainVars

\* the raise after the loop
AllFailed ==
  /\ stage = "loop"
  /\ api = Len(apis_to_try) + 1
  /\ outcome' = AllFailedError(last_error)
  /\ stage' = "done"
  /\ UNCHANGED <<call, from_currency, to_currency, api, last_error, tried>>
  /\ UNCHANGED mainVars

NextConvert == SameOrLoop \/ TryApi \/ AllFailed

SpecConvert == InitConvert /\ [][NextConvert]_vars

\* the providers in the order the claim names them
ProviderOrder ==
  <<"_try_exchangerate_api", "_try_fixer_free", "_try_currencyapi_free",
    "_try_hardcoded_rates">>

CallFailed(c) == c.out.res = "raise"

SameIgnoringCase == Lower(call.from_currency) = Lower(call.to_currency)

\* C12: convert calls its providers strictly in the order exchangerate-api,
\* fixer, currencyapi, hard-coded offline rates; a provider is called only
\* after every earlier one failed; a returned result is the result of the
\* first provider that succeeded and no later provider is called;
\* CurrencyError is raised only when all four failed and carries the last
\* provider's error; when source and target are equal case-insensitively
\* convert returns without calling any provider.
C12_ProvidersInOrder ==
  /\ Len(tried) <= Len(ProviderOrder)
  /\ \A i \in 1..Len(tried) :
       /\ tried[i].api_func = ProviderOrder[i]
       /\ \A j \in 1..(i - 1) : CallFailed(tried[j])
  /\ (stage = "loop" /\ ~SameIgnoringCase) =>
       /\ \A i \in 1..Len(tried) : CallFailed(tried[i])
       /\ outcome.res = "pending"
  /\ (stage = "done" /\ ~SameIgnoringCase) =>
       /\ outcome.res \in {"return", "raise"}
       /\ outcome.res = "return" =>
            /\ tried # <<>>
            /\ ~CallFailed(tried[Len(tried)])
            /\ outcome = tried[Len(tried)].out
       /\ (outcome.res = "raise" /\ outcome.exc = "CurrencyError") =>
            /\ Len(tried) = Len(ProviderOrder)
            /\ \A i \in 1..Len(tried) : CallFailed(tried[i])
            /\ outcome.last = tried[Len(tried)].out.msg
  /\ SameIgnoringCase =>
       /\ tried = <<>>
       /\ stage # "loop"
       /\ stage = "done" => outcome.res = "return" /\ outcome.by = "convert"

C12_Witness ==
  /\ stage = "done"
  /\ ~SameIgnoringCase
  /\ outcome.res = "raise"
  /\ outcome.exc = "CurrencyError"
  /\ Len(tried) = 4
  /\ tried[4].api_func = "_try_hardcoded_rates"
  /\ outcome.last = tried[4].out.msg
  /\ outcome.last.ty = "str"

====
